---- MODULE Spec2Model ----
(***************************************************************************)
(* markdown-sheet: the pipe-table parser, renderer and document rebuilder  *)
(* of src-tauri/src/markdown_parser.rs, driven by the two Tauri commands   *)
(* of src-tauri/src/commands.rs (read_markdown_file, save_markdown_file).  *)
(*                                                                         *)
(* A Rust String is modelled as a sequence of one-character strings, so   *)
(* that trimming, splitting, padding and line splitting are computed      *)
(* character by character as the code computes them.  Option<T> is a      *)
(* sequence of length 0 (None) or 1 (Some).  Line numbers are zero-based  *)
(* as in the code; lines[i] of the code is lines[i + 1] here.             *)
(* The alphabets hold ASCII characters only (no tab, no carriage return), *)
(* so byte length and character count agree.                              *)
(***************************************************************************)
EXTENDS Integers, Sequences, FiniteSets, TLC

VARIABLES
    file,     \* the text of the markdown file on disk
    pc,       \* "closed", "open", "saved", "reread"; "line", "tokenized"
    p,        \* the ParsedDocument read_markdown_file returned
    tables,   \* the tables handed to save_markdown_file
    edit,     \* what the consumer changed in p.tables before saving
    q,        \* the ParsedDocument read back after the save
    tok       \* the row tokenizer's results for the line in file

vars == <<file, pc, p, tables, edit, q, tok>>

(***************************************************************************)
(* Bounds of the model.                                                    *)
(***************************************************************************)
\* longest line handed to the row tokenizer on its own
MaxLen == 5
\* most lines of a document built from LinePool
MaxLines == 3
\* most lines of a document built from HeadingPool
MaxHeadingLines == 5
\* most lines of a document built from RaggedPool
MaxRaggedLines == 4
\* the narrowest column serialize_table renders: h.len().max(3)
MinWidth == 3

(***************************************************************************)
(* str helpers of the Rust standard library, as the code uses them.       *)
(***************************************************************************)
None == <<>>

Some(x) == <<x>>

unwrap_or(o, d) == IF o = <<>> THEN d ELSE o[1]

is_whitespace(ch) == ch = " "

RECURSIVE trim_start(_)
trim_start(s) ==
    IF s # <<>> /\ is_whitespace(Head(s)) THEN trim_start(Tail(s)) ELSE s

RECURSIVE trim_end(_)
trim_end(s) ==
    IF s # <<>> /\ is_whitespace(s[Len(s)])
    THEN trim_end(SubSeq(s, 1, Len(s) - 1))
    ELSE s

trim(s) == trim_end(trim_start(s))

contains(s, ch) == \E k \in 1..Len(s) : s[k] = ch

starts_with(s, ch) == s # <<>> /\ Head(s) = ch

ends_with(s, ch) == s # <<>> /\ s[Len(s)] = ch

strip_prefix(s, ch) == IF starts_with(s, ch) THEN Some(Tail(s)) ELSE None

strip_suffix(s, ch) ==
    IF ends_with(s, ch) THEN Some(SubSeq(s, 1, Len(s) - 1)) ELSE None

RECURSIVE trim_start_matches(_, _)
trim_start_matches(s, ch) ==
    IF starts_with(s, ch) THEN trim_start_matches(Tail(s), ch) ELSE s

\* str::split(ch): the pieces between the occurrences of ch, at least one
RECURSIVE split(_, _)
split(s, ch) ==
    IF ~contains(s, ch)
    THEN <<s>>
    ELSE LET k == CHOOSE n \in 1..Len(s) :
                      s[n] = ch /\ \A m \in 1..(n - 1) : s[m] # ch
         IN  <<SubSeq(s, 1, k - 1)>> \o split(SubSeq(s, k + 1, Len(s)), ch)

\* str::lines(): split at "\n"; a final empty piece is no line
lines_of(content) ==
    LET pieces == split(content, "\n")
    IN  IF pieces[Len(pieces)] = <<>>
        THEN SubSeq(pieces, 1, Len(pieces) - 1)
        ELSE pieces

\* [String]::join("\n")
RECURSIVE join(_)
join(ls) ==
    IF ls = <<>> THEN <<>>
    ELSE IF Len(ls) = 1 THEN ls[1]
    ELSE ls[1] \o <<"\n">> \o join(Tail(ls))

\* "ch".repeat(n)
repeat(ch, n) == [k \in 1..n |-> ch]

max(a, b) == IF a >= b THEN a ELSE b

(***************************************************************************)
(* Row tokenizer.                                                          *)
(***************************************************************************)
\* trimmed.strip_prefix('|').unwrap_or(trimmed).strip_suffix('|').unwrap_or(trimmed)
strip_pipes(trimmed) ==
    unwrap_or(strip_suffix(unwrap_or(strip_prefix(trimmed, "|"), trimmed), "|"),
              trimmed)

parse_row(line) ==
    LET inner == strip_pipes(trim(line))
        pieces == split(inner, "|")
    IN  [k \in 1..Len(pieces) |-> trim(pieces[k])]

separator_cell(cell) ==
    LET c == trim(cell)
    IN  IF c = <<>> THEN FALSE
        ELSE \A k \in 1..Len(c) : c[k] = "-" \/ c[k] = ":"

is_separator_line(line) ==
    LET trimmed == trim(line)
    IN  IF ~contains(trimmed, "|") THEN FALSE
        ELSE LET pieces == split(strip_pipes(trimmed), "|")
             IN  \A k \in 1..Len(pieces) : separator_cell(pieces[k])

\* alignment_of with the two one-sided cases exchanged
alignment_of_swapped(cell) ==
    LET c == trim(cell)
        left == starts_with(c, ":")
        right == ends_with(c, ":")
    IN  IF left /\ right THEN "center"
        ELSE IF ~left /\ right THEN "left"
        ELSE IF left /\ ~right THEN "right"
        ELSE "none"

alignment_of(cell) ==
    LET c == trim(cell)
        left == starts_with(c, ":")
        right == ends_with(c, ":")
    IN  IF left /\ right THEN "center"
        ELSE IF ~left /\ right THEN "right"
        ELSE IF left /\ ~right THEN "left"
        ELSE "none"

parse_alignments(line) ==
    LET pieces == split(strip_pipes(trim(line)), "|")
    IN  [k \in 1..Len(pieces) |-> alignment_of(pieces[k])]

is_table_line(line) ==
    LET trimmed == trim(line)
    IN  trimmed # <<>> /\ contains(trimmed, "|")

(***************************************************************************)
(* Table extractor.                                                        *)
(***************************************************************************)
\* resize that only pads: a row longer than the header keeps its extra cells
resize_pad_only(row, n) ==
    row \o [k \in 1..(n - Len(row)) |-> <<>>]

\* row.resize(n, String::new()); row.truncate(n)
resize(row, n) == [k \in 1..n |-> IF k <= Len(row) THEN row[k] ELSE <<>>]

\* the body loop: while j < len && is_table_line && !is_separator_line
RECURSIVE body_rows(_, _, _, _)
body_rows(lines, j, n, rows) ==
    IF j < Len(lines) /\ is_table_line(lines[j + 1])
                      /\ ~is_separator_line(lines[j + 1])
    THEN body_rows(lines, j + 1, n,
                   Append(rows, resize(parse_row(lines[j + 1]), n)))
    ELSE [rows |-> rows, j |-> j]

\* capture_table with end_line: j, the line after the table
capture_table_end_at_j(lines, i, last_heading) ==
    LET headers == parse_row(lines[i + 1])
        body == body_rows(lines, i + 2, Len(headers), <<>>)
    IN  [table |-> [heading |-> last_heading,
                    headers |-> headers,
                    alignments |-> parse_alignments(lines[i + 2]),
                    rows |-> body.rows,
                    start_line |-> i,
                    end_line |-> body.j],
         j |-> body.j]

\* the MarkdownTable pushed for a header at line i, and the line j after it
capture_table(lines, i, last_heading) ==
    LET headers == parse_row(lines[i + 1])
        body == body_rows(lines, i + 2, Len(headers), <<>>)
    IN  [table |-> [heading |-> last_heading,
                    headers |-> headers,
                    alignments |-> parse_alignments(lines[i + 2]),
                    rows |-> body.rows,
                    start_line |-> i,
                    end_line |-> body.j - 1],
         j |-> body.j]

heading_text(trimmed) == trim(trim_start_matches(trimmed, "#"))

table_starts(lines, i) ==
    /\ i + 1 < Len(lines)
    /\ is_table_line(lines[i + 1])
    /\ is_separator_line(lines[i + 2])

\* the scan loop forgetting the heading once a table has used it
RECURSIVE scan_heading_used_once(_, _, _, _)
scan_heading_used_once(lines, i, last_heading, acc) ==
    IF ~(i < Len(lines)) THEN acc
    ELSE LET trimmed == trim(lines[i + 1])
         IN  IF starts_with(trimmed, "#")
             THEN scan_heading_used_once(lines, i + 1,
                                         Some(heading_text(trimmed)), acc)
             ELSE IF table_starts(lines, i)
             THEN LET c == capture_table(lines, i, last_heading)
                  IN  scan_heading_used_once(lines, c.j, None,
                                             Append(acc, c.table))
             ELSE scan_heading_used_once(lines, i + 1, last_heading, acc)

\* the scan loop: while i < len
RECURSIVE scan(_, _, _, _)
scan(lines, i, last_heading, acc) ==
    IF ~(i < Len(lines)) THEN acc
    ELSE LET trimmed == trim(lines[i + 1])
         IN  IF starts_with(trimmed, "#")
             THEN scan(lines, i + 1, Some(heading_text(trimmed)), acc)
             ELSE IF table_starts(lines, i)
             THEN LET c == capture_table(lines, i, last_heading)
                  IN  scan(lines, c.j, last_heading, Append(acc, c.table))
             ELSE scan(lines, i + 1, last_heading, acc)

parse_markdown(content) ==
    LET lines == lines_of(content)
    IN  [lines |-> lines, tables |-> scan(lines, 0, None, <<>>)]

(***************************************************************************)
(* Table renderer.                                                         *)
(***************************************************************************)
RECURSIVE concat(_)
concat(ss) == IF ss = <<>> THEN <<>> ELSE Head(ss) \o concat(Tail(ss))

Maximum(S) == CHOOSE x \in S : \A y \in S : y <= x

\* widths[ci]: max(3, header length, every row's cell length at ci)
column_widths(table) ==
    [ci \in 1..Len(table.headers) |->
        Maximum({max(Len(table.headers[ci]), MinWidth)} \cup
                {Len(table.rows[r][ci]) :
                    r \in {x \in 1..Len(table.rows) : ci <= Len(table.rows[x])}})]

\* format!(" {:<width$} |", cell, width = w)
pad_cell(cell, w) ==
    <<" ">> \o cell \o repeat(" ", max(w - Len(cell), 0)) \o <<" ", "|">>

separator_for(align, w) ==
    IF align = "left" THEN <<":">> \o repeat("-", w) \o <<"-", "|">>
    ELSE IF align = "right" THEN <<" ">> \o repeat("-", w) \o <<":", "|">>
    ELSE IF align = "center" THEN <<":">> \o repeat("-", w) \o <<":", "|">>
    ELSE <<" ">> \o repeat("-", w) \o <<"-", "|">>

serialize_table(table) ==
    LET col_count == Len(table.headers)
        widths == column_widths(table)
        header_row ==
            <<"|">> \o concat([ci \in 1..col_count |->
                                  pad_cell(table.headers[ci], widths[ci])])
                    \o <<"\n">>
        separator_row ==
            <<"|">> \o concat([ci \in 1..col_count |->
                                  separator_for(IF ci <= Len(table.alignments)
                                                THEN table.alignments[ci]
                                                ELSE "none",
                                                widths[ci])])
                    \o <<"\n">>
        data_row(row) ==
            <<"|">> \o concat([ci \in 1..col_count |->
                                  pad_cell(IF ci <= Len(row) THEN row[ci] ELSE <<>>,
                                           widths[ci])])
                    \o <<"\n">>
    IN  header_row \o separator_row
          \o concat([r \in 1..Len(table.rows) |-> data_row(table.rows[r])])

(***************************************************************************)
(* Document rebuilder.                                                     *)
(***************************************************************************)
\* for line in &original_lines[from..to] { push_str(line); push('\n') }
push_lines(original_lines, from, to) ==
    concat([k \in 1..(to - from) |-> original_lines[from + k] \o <<"\n">>])

\* the loop with cursor = table.end_line, one line short
RECURSIVE splice_cursor_at_end_line(_, _, _, _)
splice_cursor_at_end_line(original_lines, ts, cursor, result) ==
    IF ts = <<>>
    THEN result \o push_lines(original_lines, cursor, Len(original_lines))
    ELSE splice_cursor_at_end_line(
             original_lines, Tail(ts), Head(ts).end_line,
             result \o push_lines(original_lines, cursor, Head(ts).start_line)
                    \o serialize_table(Head(ts)))

\* the loop over the tables, with its running cursor
RECURSIVE splice(_, _, _, _)
splice(original_lines, ts, cursor, result) ==
    IF ts = <<>>
    THEN result \o push_lines(original_lines, cursor, Len(original_lines))
    ELSE splice(original_lines, Tail(ts), Head(ts).end_line + 1,
                result \o push_lines(original_lines, cursor, Head(ts).start_line)
                       \o serialize_table(Head(ts)))

last_is_empty(original_lines) ==
    original_lines # <<>> /\ original_lines[Len(original_lines)] = <<>>

trim_newline(result, original_lines) ==
    IF ends_with(result, "\n") /\ ~last_is_empty(original_lines)
    THEN SubSeq(result, 1, Len(result) - 1)
    ELSE result

rebuild_document(original_lines, ts) ==
    IF ts = <<>>
    THEN join(original_lines)
    ELSE trim_newline(splice(original_lines, ts, 0, <<>>), original_lines)

(***************************************************************************)
(* Inputs: the files on disk and the consumer's edits.                     *)
(***************************************************************************)
BoundedSeq(S, n) == UNION {[1..k -> S] : k \in 0..n}

RowAlphabet == {"|", "-", ":", " ", "a"}

\* lines of every kind the extractor tells apart: blank, heading, text-like
\* table lines with and without outer pipes, separators of one and two
\* cells, rows longer and shorter than a two-cell header
LinePool ==
    { <<>>,
      <<"#", " ", "h">>,
      <<"a", "|", "b">>,
      <<"|", "a">>,
      <<"|", "a", "|">>,
      <<"|", "-", "|">>,
      <<":", "-", "|", "-", ":">>,
      <<"-", "|", "-", "|", "a">> }

\* one-column tables whose body rows may begin with '#'
HeadingPool ==
    { <<"#", " ", "h">>,
      <<"#", "a", "|">>,
      <<"a", "|">>,
      <<"-", "|">> }

\* the lines joined by "\n", with or without a final "\n"
unlines(ls, final_newline) ==
    IF final_newline
    THEN concat([k \in 1..Len(ls) |-> ls[k] \o <<"\n">>])
    ELSE join(ls)

DocsOver(pool, n) ==
    {unlines(ls, nl) : ls \in BoundedSeq(pool, n), nl \in BOOLEAN}

\* two-column tables whose body rows have one, two or three cells
RaggedPool ==
    { <<"a", "|", "b">>,
      <<"|", "-", "|">>,
      <<"|", "a", "|">>,
      <<"-", "|", "-", "|", "a">> }

Documents ==
    DocsOver(LinePool, MaxLines)
        \cup DocsOver(HeadingPool, MaxHeadingLines)
        \cup DocsOver(RaggedPool, MaxRaggedLines)

EditCells == {<<"b">>, <<"-">>}

Alignments == {"left", "right", "center", "none"}

NoDocument == [lines |-> <<>>, tables |-> <<>>]

NoEdit == [op |-> "none", t |-> 0, row |-> <<>>]

(***************************************************************************)
(* The commands.                                                           *)
(***************************************************************************)
Init ==
    /\ file \in Documents
    /\ pc = "closed"
    /\ p = NoDocument
    /\ tables = <<>>
    /\ edit = NoEdit
    /\ q = NoDocument
    /\ tok = <<>>

\* read_markdown_file on a file not yet open
read_markdown_file ==
    /\ pc = "closed"
    /\ p' = parse_markdown(file)
    /\ pc' = "open"
    /\ UNCHANGED <<file, tables, edit, q, tok>>

\* save_markdown_file(path, original_lines, tables) with p.lines and ts;
\* ts is p.tables as parsed or with one change by the consumer (a row
\* appended, a cell, a header or an alignment replaced), named by e
save(ts, e) ==
    /\ pc = "open"
    /\ tables' = ts
    /\ edit' = e
    /\ file' = rebuild_document(p.lines, ts)
    /\ pc' = "saved"
    /\ UNCHANGED <<p, q, tok>>

save_unedited == save(p.tables, NoEdit)

save_appended_row ==
    \E t \in 1..Len(p.tables) :
        \E row \in [1..Len(p.tables[t].headers) -> EditCells] :
            save([p.tables EXCEPT ![t].rows = Append(@, row)],
                 [op |-> "append", t |-> t, row |-> row])

save_edited_cell ==
    \E t \in 1..Len(p.tables) :
        \E r \in 1..Len(p.tables[t].rows) :
            \E c \in 1..Len(p.tables[t].headers) :
                \E v \in EditCells :
                    save([p.tables EXCEPT ![t].rows[r][c] = v],
                         [op |-> "cell", t |-> t, row |-> <<>>])

save_edited_header ==
    \E t \in 1..Len(p.tables) :
        \E c \in 1..Len(p.tables[t].headers) :
            \E v \in EditCells :
                save([p.tables EXCEPT ![t].headers[c] = v],
                     [op |-> "header", t |-> t, row |-> <<>>])

save_edited_alignment ==
    \E t \in 1..Len(p.tables) :
        \E c \in 1..Len(p.tables[t].alignments) :
            \E a \in Alignments :
                save([p.tables EXCEPT ![t].alignments[c] = a],
                     [op |-> "alignment", t |-> t, row |-> <<>>])

\* read_markdown_file on the file just saved
reread_markdown_file ==
    /\ pc = "saved"
    /\ q' = parse_markdown(file)
    /\ pc' = "reread"
    /\ UNCHANGED <<file, p, tables, edit, tok>>

Next ==
    \/ read_markdown_file
    \/ save_unedited
    \/ save_appended_row
    \/ save_edited_cell
    \/ save_edited_header
    \/ save_edited_alignment
    \/ reread_markdown_file

Spec == Init /\ [][Next]_vars

(***************************************************************************)
(* The row tokenizer on a line of its own.                                 *)
(***************************************************************************)
InitRow ==
    /\ file \in BoundedSeq(RowAlphabet, MaxLen)
    /\ pc = "line"
    /\ p = NoDocument
    /\ tables = <<>>
    /\ edit = NoEdit
    /\ q = NoDocument
    /\ tok = <<>>

tokenize_line ==
    /\ pc = "line"
    /\ tok' = <<[cells |-> parse_row(file),
                 separator |-> is_separator_line(file),
                 alignments |-> parse_alignments(file),
                 table_line |-> is_table_line(file)]>>
    /\ pc' = "tokenized"
    /\ UNCHANGED <<file, p, tables, edit, q>>

NextRow == tokenize_line

SpecRow == InitRow /\ [][NextRow]_vars

(***************************************************************************)
(* Properties.                                                             *)
(***************************************************************************)
\* the documents parse_markdown has returned so far
Parsed ==
    IF pc \in {"open", "saved"} THEN {p}
    ELSE IF pc = "reread" THEN {p, q}
    ELSE {}

Tables(d) == {d.tables[t] : t \in 1..Len(d.tables)}

\* the cells of a line as the row tokenizer is specified: one leading '|'
\* and, independently, one trailing '|' removed before splitting
cells_as_specified(line) ==
    LET trimmed == trim(line)
        no_lead == IF starts_with(trimmed, "|") THEN Tail(trimmed) ELSE trimmed
        inner == IF ends_with(no_lead, "|")
                 THEN SubSeq(no_lead, 1, Len(no_lead) - 1)
                 ELSE no_lead
        pieces == split(inner, "|")
    IN  [k \in 1..Len(pieces) |-> trim(pieces[k])]

\* the line of document d at zero-based index i
line_at(d, i) == d.lines[i + 1]

\* the raw cell count of body row r of table t in document d
raw_cells(d, t, r) == Len(parse_row(line_at(d, t.start_line + 1 + r)))

\* zero-based index k lies inside the span of table t
in_span(t, k) == t.start_line <= k /\ k <= t.end_line

\* C1: an unedited save round-trips: the file read back has as many tables
\* as the first parse, with the same headers and rows, cell for cell.
RoundTripIdentity ==
    (pc = "reread" /\ edit.op = "none") =>
        /\ Len(q.tables) = Len(p.tables)
        /\ \A i \in 1..Len(p.tables) :
               /\ q.tables[i].headers = p.tables[i].headers
               /\ q.tables[i].rows = p.tables[i].rows

\* the text rebuild_document is specified to return, before the final
\* newline is trimmed: every line outside the spans followed by "\n", each
\* span replaced by its table's rendering
ExpectedText(original_lines, ts) ==
    concat([k \in 1..Len(original_lines) |->
               IF \E t \in 1..Len(ts) : ts[t].start_line = k - 1
               THEN serialize_table(
                        ts[CHOOSE t \in 1..Len(ts) : ts[t].start_line = k - 1])
               ELSE IF \E t \in 1..Len(ts) : in_span(ts[t], k - 1)
               THEN <<>>
               ELSE original_lines[k] \o <<"\n">>])

\* C2: with a non-empty table list, the saved text is exactly the outside
\* lines, in order and unchanged, with each span replaced by the rendering
\* of the table's current content (up to the one trimmed final newline).
OutsideTextPreserved ==
    (pc \in {"saved", "reread"} /\ tables # <<>>) =>
        \/ file = ExpectedText(p.lines, tables)
        \/ file \o <<"\n">> = ExpectedText(p.lines, tables)

\* C2 witness: an edited table with text before it and text after it
OutsideTextWitness ==
    /\ pc = "saved"
    /\ edit.op # "none"
    /\ \E t \in 1..Len(tables) :
           /\ tables[t].start_line > 0
           /\ tables[t].end_line + 1 < Len(p.lines)
    /\ Len(tables) >= 2

\* C3: a row of N cells appended to a table is read back as that table's
\* last row, after its earlier rows unchanged.
AppendedRowReadBack ==
    (pc = "reread" /\ edit.op = "append") =>
        /\ Len(q.tables) >= edit.t
        /\ q.tables[edit.t].rows = Append(p.tables[edit.t].rows, edit.row)

\* C4: every row of every parsed table has exactly len(headers) cells.
ColumnNormalization ==
    \A d \in Parsed : \A t \in Tables(d) :
        \A r \in 1..Len(t.rows) : Len(t.rows[r]) = Len(t.headers)

\* C4 witness: a table with a source row longer and one shorter than the header
ColumnNormalizationWitness ==
    /\ pc = "open"
    /\ \E t \in Tables(p) :
           /\ \E r \in 1..Len(t.rows) : raw_cells(p, t, r) > Len(t.headers)
           /\ \E r \in 1..Len(t.rows) : raw_cells(p, t, r) < Len(t.headers)

\* C5: the parsed tables are in document order and disjoint, and every span
\* is header + separator + one line per row, inside the document.
NonOverlapOrdering ==
    \A d \in Parsed :
        /\ \A i \in 1..(Len(d.tables) - 1) :
               d.tables[i].end_line < d.tables[i + 1].start_line
        /\ \A t \in Tables(d) :
               /\ t.start_line >= 0
               /\ t.end_line >= t.start_line + 1
               /\ t.end_line - t.start_line - 1 = Len(t.rows)
               /\ t.end_line < Len(d.lines)
        /\ \A k \in 0..(Len(d.lines) - 1) :
               Cardinality({i \in 1..Len(d.tables) : in_span(d.tables[i], k)}) <= 1

\* C5 witness: two tables, the first with body rows
NonOverlapWitness ==
    /\ pc = "open"
    /\ Len(p.tables) >= 2
    /\ p.tables[1].rows # <<>>

\* the zero-based indices before table t of lines that start with '#'
hash_lines_before(d, t) ==
    {k \in 0..(t.start_line - 1) : starts_with(trim(line_at(d, k)), "#")}

\* those of them that no table of d holds in its span
heading_lines_before(d, t) ==
    {k \in hash_lines_before(d, t) : \A u \in Tables(d) : ~in_span(u, k)}

\* the heading text of the last line of S, None when S is empty
heading_from(d, S) ==
    IF S = {} THEN None
    ELSE Some(trim(trim_start_matches(trim(line_at(d, Maximum(S))), "#")))

\* C6 as claimed: heading is the text of the nearest line before the table
\* that starts with '#', None exactly when there is none.
HeadingIsNearestHashLine ==
    \A d \in Parsed : \A t \in Tables(d) :
        t.heading = heading_from(d, hash_lines_before(d, t))

\* C6 amended: the nearest line before the table that starts with '#' and
\* is not a body row of an earlier table.
HeadingIsNearestHeadingLine ==
    \A d \in Parsed : \A t \in Tables(d) :
        t.heading = heading_from(d, heading_lines_before(d, t))

\* C6 witness: a heading carried across a table to a second table, and a
\* table whose nearest '#' line is a body row of the table before it
HeadingWitness ==
    /\ pc = "open"
    /\ \E t \in Tables(p) :
           /\ hash_lines_before(p, t) # {}
           /\ heading_lines_before(p, t) # hash_lines_before(p, t)
    /\ Len(p.tables) >= 2

\* the alignment a separator cell declares, from its colons
alignment_as_specified(c) ==
    CASE starts_with(c, ":") /\ ends_with(c, ":") -> "center"
      [] starts_with(c, ":") /\ ~ends_with(c, ":") -> "left"
      [] ~starts_with(c, ":") /\ ends_with(c, ":") -> "right"
      [] OTHER -> "none"

\* C7 as claimed: alignments has exactly len(headers) entries.
AlignmentsMatchHeaders ==
    \A d \in Parsed : \A t \in Tables(d) :
        /\ Len(t.alignments) = Len(t.headers)
        /\ \A k \in 1..Len(t.alignments) : t.alignments[k] \in Alignments

\* C7 amended: alignments has one entry per cell of the separator row, each
\* one of left / right / center / none, the k-th from the k-th cell.
AlignmentsMatchSeparator ==
    \A d \in Parsed : \A t \in Tables(d) :
        LET cells == cells_as_specified(line_at(d, t.start_line + 1))
        IN  /\ Len(t.alignments) = Len(cells)
            /\ \A k \in 1..Len(cells) :
                   /\ t.alignments[k] \in Alignments
                   /\ t.alignments[k] = alignment_as_specified(cells[k])

\* C7 witness: a separator row with fewer cells than the header row, and a
\* separator row declaring a one-sided alignment
AlignmentsWitness ==
    /\ pc = "open"
    /\ \E t \in Tables(p) : Len(t.alignments) < Len(t.headers)
    /\ \E t \in Tables(p) : \E k \in 1..Len(t.alignments) :
           t.alignments[k] \in {"left", "right"}

\* C8: parse_row strips the leading and the trailing pipe independently.
ParseRowStripsIndependently ==
    pc = "tokenized" => tok[1].cells = cells_as_specified(file)

\* a line is a separator as specified: it contains '|' and every cell is
\* non-empty and made of '-' and ':' only
separator_as_specified(line) ==
    /\ contains(line, "|")
    /\ \A k \in 1..Len(cells_as_specified(line)) :
           LET c == cells_as_specified(line)[k]
           IN  c # <<>> /\ \A n \in 1..Len(c) : c[n] \in {"-", ":"}

\* C9: is_separator_line is true exactly for the lines specified.
SeparatorIffDashColonCells ==
    pc = "tokenized" => (tok[1].separator <=> separator_as_specified(file))

\* C10: an unedited save keeps the line list: as many lines read back as
\* were read, the same line at every index outside the table spans.
LineListPreserved ==
    (pc = "reread" /\ edit.op = "none") =>
        /\ Len(q.lines) = Len(p.lines)
        /\ \A k \in 0..(Len(p.lines) - 1) :
               (\A t \in Tables(p) : ~in_span(t, k)) =>
                   line_at(q, k) = line_at(p, k)

====
